---- MODULE Spec2Model ----
(***************************************************************************)
(* Memory view of interview.c: a MemView maps a logical address space onto *)
(* an array of Buffer descriptors (data pointer, length).                  *)
(*                                                                         *)
(* A pointer is a pair [obj, off]: the memory object it points into (the   *)
(* k-th caller segment is object k, numbered from 0) and the byte offset   *)
(* inside that object.  The byte stored at offset j of caller segment k is *)
(* its 1-based position in the concatenation of all caller segments, so    *)
(* every byte of the logical content is distinguishable.                   *)
(* C arrays are functions over 0..n-1, as in the source.                   *)
(*                                                                         *)
(* The int locals and fields (deloffset, lencopy, coffset, nbytes) and the *)
(* size_t lengths hold values far inside the range of a 32-bit int in      *)
(* every run drawn here, so their arithmetic is plain integer arithmetic;  *)
(* the one signed/unsigned comparison whose conversion matters (a negative *)
(* nbytes in the range check of memview_read) is modelled as such.         *)
(***************************************************************************)
EXTENDS Integers, Sequences, FiniteSets, TLC

\* ---------------------------------------------------------------- bounds
MaxSegLen == 2        \* longest caller segment drawn at start
MaxDiscard == 4       \* largest amount passed to one discard_front call
MaxDiscarded == 7     \* largest sum of the amounts passed to discard_front

\* ------------------------------------------------------ program constants
\* sizeof(buffers) / sizeof(buffers[0]) in main: the caller's array holds
\* three segments; the runs start from every list of at most that many.
MainSegs == 3

\* Values an uninitialised int (the caller's MemView.nbytes) may hold.
StackGarbage == {-1, 0, 1}
\* Values a byte outside every segment may hold (0 is no content byte,
\* 1 is also the first content byte).
JunkBytes == {0, 1}
\* Lengths a Buffer descriptor loaded from outside the array, or never
\* assigned, may hold.
JunkLens == {0, 3}
\* Values the int pos of memview_read may hold when nothing assigned it.
JunkPos == {-1, 0}

NULL == "NULL"
\* The pointer calloc returns in memview_init: the start of the block that
\* holds the view's copy of the descriptors.
Block == [obj |-> "block", off |-> 0]
Untouched == -1       \* a destination byte the call has not written

VARIABLES
    buffers,      \* the caller's Buffer array (main's `buffers`)
    memview,      \* the MemView struct: base (the pointer memview->buffers),
                  \* buffers (the entries of the block it points to),
                  \* nbuffers, nbytes
    pc,           \* where the caller is: before init, ready, failed, ...
    call,         \* the last API call: its arguments and its results
    discarded,    \* sum of the amounts passed to discard_front so far
    freed         \* the pointers passed to free, in order

vars == <<buffers, memview, pc, call, discarded, freed>>

\* ------------------------------------------------------------- helpers
RECURSIVE SumLen(_, _)
\* Sum of the len fields of bufs[0 .. n-1].
SumLen(bufs, n) == IF n <= 0 THEN 0 ELSE SumLen(bufs, n - 1) + bufs[n - 1].len

\* The caller's array for segment lengths lens (a sequence): segment k is
\* memory object k, pointed to at its start.
MakeBuffers(lens) ==
    [k \in 0 .. Len(lens) - 1 |->
        [data |-> [obj |-> k, off |-> 0], len |-> lens[k + 1]]]

\* Number of entries of a C array modelled as a function over 0..n-1.
Count(arr) == Cardinality(DOMAIN arr)

\* Total length of the caller's segments.
OrigTotal == SumLen(buffers, Count(buffers))

\* The byte at pointer p: inside caller segment p.obj it is the byte's
\* 1-based position in the concatenation of the caller's segments; outside
\* every segment the value is not determined by the program (junk).
ByteAt(p, junk) ==
    IF /\ p.obj \in DOMAIN buffers
       /\ p.off >= 0
       /\ p.off < buffers[p.obj].len
    THEN SumLen(buffers, p.obj) + p.off + 1
    ELSE junk

\* ---------------------------------------------------------- memview_init
RECURSIVE InitLoop(_, _)
\* for (i = 0; i < nbuffers; i++) memview->nbytes += memview->buffers[i].len;
\* nbytes is accumulated into whatever the struct held before the call.
InitLoop(mv, i) ==
    IF ~(i < mv.nbuffers) THEN mv
    ELSE InitLoop([mv EXCEPT !.nbytes = mv.nbytes + mv.buffers[i].len], i + 1)

\* memview_init(memview, buffers, nbuffers); allocated is whether calloc
\* returned a block.  Returns the struct and the call's result.
memview_init(mv, bufs, allocated) ==
    IF ~allocated
    THEN [mv |-> [mv EXCEPT !.base = NULL, !.buffers = NULL], ret |-> FALSE]
    ELSE [mv |-> InitLoop([mv EXCEPT !.base = Block,
                                     !.buffers = bufs,
                                     !.nbuffers = Count(bufs)], 0),
          ret |-> TRUE]

\* ------------------------------------------------- memview_discard_front
\* The test of line 88 with >= in place of >: a segment that ends exactly at
\* the new front is skipped too.
Consumed_SkipsExactEnd(deloffset, len) == deloffset >= len

\* if (deloffset > memview->buffers[i].len): the segment lies wholly before
\* the new front.
Consumed(deloffset, len) == deloffset > len

\* The body of lines 93-98 with the sign of line 96 slipped: the requested
\* amount is added to nbytes.
DiscardAt_AddsAmount(mv, nbytes, i, deloffset) ==
    LET b == mv.buffers[i]
        adv == [data |-> [obj |-> b.data.obj, off |-> b.data.off + deloffset],
                len |-> b.len - deloffset]
        bufs1 == [mv.buffers EXCEPT ![i] = adv]
    IN  [mv EXCEPT !.buffers = [bufs1 EXCEPT ![0] = bufs1[i]],
                   !.nbuffers = mv.nbuffers - i,
                   !.nbytes = mv.nbytes + nbytes]

\* The body of lines 93-98 dropping the i leading segments by advancing the
\* array pointer (memview->buffers += i) next to the copy into slot 0.
DiscardAt_AdvancesBase(mv, nbytes, i, deloffset) ==
    LET b == mv.buffers[i]
        adv == [data |-> [obj |-> b.data.obj, off |-> b.data.off + deloffset],
                len |-> b.len - deloffset]
        bufs1 == [mv.buffers EXCEPT ![i] = adv]
    IN  [mv EXCEPT !.base = [obj |-> mv.base.obj, off |-> mv.base.off + i],
                   !.buffers = [bufs1 EXCEPT ![0] = bufs1[i]],
                   !.nbuffers = mv.nbuffers - i,
                   !.nbytes = mv.nbytes - nbytes]

\* The body run for the segment the new front falls into: advance it, drop
\* the i leading segments from the count, subtract the requested amount and
\* store the advanced segment into slot 0.
DiscardAt(mv, nbytes, i, deloffset) ==
    LET b == mv.buffers[i]
        adv == [data |-> [obj |-> b.data.obj, off |-> b.data.off + deloffset],
                len |-> b.len - deloffset]
        bufs1 == [mv.buffers EXCEPT ![i] = adv]
    IN  [mv EXCEPT !.buffers = [bufs1 EXCEPT ![0] = bufs1[i]],
                   !.nbuffers = mv.nbuffers - i,
                   !.nbytes = mv.nbytes - nbytes]

RECURSIVE DiscardLoop(_, _, _, _)
\* for (i = 0; i < memview->nbuffers; i++) { ... }
DiscardLoop(mv, nbytes, i, deloffset) ==
    IF ~(i < mv.nbuffers) THEN mv
    ELSE IF Consumed(deloffset, mv.buffers[i].len)
         THEN DiscardLoop(mv, nbytes, i + 1, deloffset - mv.buffers[i].len)
         ELSE DiscardAt(mv, nbytes, i, deloffset)

\* memview_discard_front(memview, nbytes)
memview_discard_front(mv, nbytes) == DiscardLoop(mv, nbytes, 0, nbytes)

RECURSIVE DiscardIterations(_, _, _)
\* How many times the body of the for loop of lines 87-99 is entered: once
\* for every segment skipped by continue, once more for the segment at
\* which it breaks.
DiscardIterations(mv, i, deloffset) ==
    IF ~(i < mv.nbuffers) THEN 0
    ELSE IF Consumed(deloffset, mv.buffers[i].len)
         THEN 1 + DiscardIterations(mv, i + 1, deloffset - mv.buffers[i].len)
         ELSE 1

\* ----------------------------------------------------------- memview_read
\* if (len < 0 || offset >= memview->nbytes) return false;
\* len is a size_t, so len < 0 never holds.  offset is a uint64_t, so the int
\* nbytes is converted to uint64_t: a negative nbytes becomes a value of at
\* least 2^63, above every offset drawn here.
RangeCheckFails(mv, offset, len) ==
    \/ len < 0
    \/ IF mv.nbytes < 0 THEN FALSE ELSE offset >= mv.nbytes

RECURSIVE SearchLoop(_, _, _)
\* "Searching the buffer": for (i = 0; i < nbuffers; i++), skipping a segment
\* while coffset > its len.  When no segment stops the loop, pos and b are
\* never assigned.
SearchLoop(mv, i, coffset) ==
    IF ~(i < mv.nbuffers) THEN [found |-> FALSE, pos |-> i, coffset |-> coffset]
    ELSE IF coffset > mv.buffers[i].len
         THEN SearchLoop(mv, i + 1, coffset - mv.buffers[i].len)
         ELSE [found |-> TRUE, pos |-> i, coffset |-> coffset]

\* b = memview->buffers[pos]: an entry of the allocated array (which keeps
\* its entries past nbuffers), or, past the end of the allocation, a
\* descriptor the program does not determine.
LoadBuffer(mv, pos, g) ==
    IF pos \in DOMAIN mv.buffers THEN mv.buffers[pos]
    ELSE [data |-> [obj |-> -1, off |-> 0], len |-> g.len]

\* "Buffer b;" (line 114) when the search loop assigned nothing to it.
UnassignedBuffer(g) == [data |-> [obj |-> -1, off |-> 0], len |-> g.len]

\* memcpy(data + dst, b.data + coffset, n).  Only the bytes that land in the
\* destination are tracked.
MemcpyFrom(data, dst, b, coffset, n, g) ==
    [k \in DOMAIN data |->
        IF k >= dst /\ k < dst + n
        THEN ByteAt([obj |-> b.data.obj, off |-> b.data.off + coffset + (k - dst)],
                    g.byte)
        ELSE data[k]]

\* The count of one memcpy of the copy loop: lencopy when b.len >= lencopy,
\* else b.len.
CopyCount(b, lencopy) == IF b.len >= lencopy THEN lencopy ELSE b.len

RECURSIVE CopyLoop(_, _, _, _)
\* "Let copy the info": while (lencopy > 0) { ... }.  st holds the locals
\* lencopy, coffset, pos, b, the destination bytes, and a log of the memcpy
\* calls (copies) and of the indexes loaded from the array (loads).
CopyLoop(mv, len, st, g) ==
    IF ~(st.lencopy > 0) THEN st
    ELSE LET n == CopyCount(st.b, st.lencopy)
             dst == len - st.lencopy
             st1 == [st EXCEPT
                       !.data = MemcpyFrom(st.data, dst, st.b, st.coffset, n, g),
                       !.copies = Append(st.copies,
                           [pos |-> st.pos, blen |-> st.b.len,
                            coffset |-> st.coffset, n |-> n]),
                       !.lencopy = st.lencopy - (st.b.len - st.coffset),
                       !.coffset = 0,
                       !.iters = st.iters + 1]
         IN  IF st.pos < mv.nbuffers
             THEN CopyLoop(mv, len,
                    [st1 EXCEPT !.pos = st.pos + 1,
                                !.b = LoadBuffer(mv, st.pos + 1, g),
                                !.loads = Append(st.loads, st.pos + 1)],
                    g)
             ELSE st1

\* The destination before the call: len bytes, none written yet.
FreshData(len) == [k \in 0 .. len - 1 |-> Untouched]

\* Line 118 preceded by a memset: a rejected read hands back a zero-filled
\* destination.
RejectedRead_ZeroFills(mv, len) ==
    [ret |-> "false", data |-> [k \in 0 .. len - 1 |-> 0], copies |-> <<>>,
     loads |-> <<>>, iters |-> 0, found |-> TRUE, mv |-> mv]

\* return false (line 118): taken before anything is copied or loaded.
RejectedRead(mv, len) ==
    [ret |-> "false", data |-> FreshData(len), copies |-> <<>>,
     loads |-> <<>>, iters |-> 0, found |-> TRUE, mv |-> mv]

\* The search loop working on the array entry itself instead of the copy b:
\* it advances the found segment by coffset, as discard_front does.
StructAfterRead_AdvancesInPlace(mv, pos, coffset) ==
    [mv EXCEPT !.buffers[pos] =
        [data |-> [obj |-> @.data.obj, off |-> @.data.off + coffset],
         len |-> @.len - coffset]]

\* The struct after the search and copy loops: b = memview->buffers[i] copies
\* the descriptor into a local (lines 114, 128, 148) and nothing is stored
\* through memview, so the struct is what it was.
StructAfterRead(mv, pos, coffset) == mv

\* memview_read(memview, offset, data, len).  g resolves what the program
\* leaves undetermined: the value of bytes outside every segment (g.byte),
\* the length in a descriptor loaded from outside the array or never
\* assigned (g.len), and, when the copy loop runs on the unassigned b and
\* pos, the value of pos (g.pos) and whether the process dies on the wild
\* pointer (g.crash).
memview_read(mv, offset, len, g) ==
    IF RangeCheckFails(mv, offset, len)
    THEN RejectedRead(mv, len)
    ELSE LET s == SearchLoop(mv, 0, offset)
         IN  IF ~s.found /\ len > 0 /\ g.crash
             THEN [ret |-> "crash", data |-> FreshData(len),
                   copies |-> <<>>, loads |-> <<>>, iters |-> 0,
                   found |-> FALSE, mv |-> mv]
             ELSE LET st == CopyLoop(mv, len,
                              [lencopy |-> len, coffset |-> s.coffset,
                               pos |-> IF s.found THEN s.pos ELSE g.pos,
                               b |-> IF s.found THEN mv.buffers[s.pos]
                                     ELSE UnassignedBuffer(g),
                               data |-> FreshData(len), copies |-> <<>>,
                               loads |-> IF s.found THEN <<s.pos>> ELSE <<>>,
                               iters |-> 0],
                              g)
                  IN  [ret |-> "true", data |-> st.data, copies |-> st.copies,
                       loads |-> st.loads, iters |-> st.iters,
                       found |-> s.found,
                       mv |-> IF s.found
                              THEN StructAfterRead(mv, s.pos, s.coffset)
                              ELSE mv]

\* What a read may leave undetermined, resolved in every possible way.
Undetermined ==
    [byte : JunkBytes, len : JunkLens, pos : JunkPos, crash : BOOLEAN]

\* The copy loop of this call runs on a b and a pos that nothing assigned:
\* the range check passed, the search loop stopped at no segment, len > 0.
RunsUnassigned(mv, offset, len) ==
    /\ ~RangeCheckFails(mv, offset, len)
    /\ len > 0
    /\ ~SearchLoop(mv, 0, offset).found

\* The results memview_read can produce for one call.  g.pos and g.crash are
\* consulted only when the copy loop runs unassigned, so one value of each
\* stands for all of them otherwise.
ReadOutcomes(mv, offset, len) ==
    {memview_read(mv, offset, len, g) :
        g \in {u \in Undetermined :
                 \/ RunsUnassigned(mv, offset, len)
                 \/ (u.pos = 0 /\ ~u.crash)}}

\* ------------------------------------------------------------ the caller
\* main's segment list hello / world / ! by its lengths.
MainLens == <<5, 5, 1>>

\* The segment lists a run may start from.
SegLists ==
    UNION {[1 .. n -> 0 .. MaxSegLen] : n \in 0 .. MainSegs} \cup {MainLens}

\* Amounts passed to discard_front.
Amounts == 0 .. MaxDiscard

\* Offsets and lengths passed to read: everything up to one past the total.
ReadArgs == 0 .. OrigTotal + 1

\* A call record: the fields a call does not use hold these defaults.
NoCall ==
    [name |-> "none", n |-> 0, offset |-> 0, len |-> 0, ret |-> "void",
     data |-> <<>>, copies |-> <<>>, loads |-> <<>>, iters |-> 0,
     found |-> TRUE]

\* "MemView memview;" in main: a struct nobody has written.  Only nbytes is
\* read before it is assigned, so only its garbage is drawn.
Init ==
    /\ buffers \in {MakeBuffers(lens) : lens \in SegLists}
    /\ \E garbage \in StackGarbage :
          memview = [base |-> NULL, buffers |-> NULL, nbuffers |-> 0,
                     nbytes |-> garbage]
    /\ pc = "start"
    /\ call = NoCall
    /\ discarded = 0
    /\ freed = <<>>

\* assert(memview_init(&memview, buffers, n))
Initialize ==
    /\ pc = "start"
    /\ \E allocated \in BOOLEAN :
          LET r == memview_init(memview, buffers, allocated)
          IN  /\ memview' = r.mv
              /\ pc' = IF r.ret THEN "ready" ELSE "failed"
              /\ call' = [NoCall EXCEPT !.name = "init",
                                        !.ret = IF r.ret THEN "true" ELSE "false"]
    /\ UNCHANGED <<buffers, discarded, freed>>

\* memview_discard_front(&memview, n)
DiscardFront ==
    /\ pc = "ready"
    /\ \E n \in Amounts :
          /\ discarded + n <= MaxDiscarded
          /\ memview' = memview_discard_front(memview, n)
          /\ call' = [NoCall EXCEPT !.name = "discard_front", !.n = n,
                                    !.iters = DiscardIterations(memview, 0, n)]
          /\ discarded' = discarded + n
    /\ UNCHANGED <<buffers, pc, freed>>

\* memview_read(&memview, offset, buf, len)
Read ==
    /\ pc = "ready"
    /\ \E offset \in ReadArgs, len \in ReadArgs :
          \E r \in ReadOutcomes(memview, offset, len) :
             /\ call' = [name |-> "read", n |-> 0, offset |-> offset,
                         len |-> len, ret |-> r.ret, data |-> r.data,
                         copies |-> r.copies, loads |-> r.loads,
                         iters |-> r.iters, found |-> r.found]
             /\ memview' = r.mv
             /\ pc' = IF r.ret = "crash" THEN "crashed" ELSE "read"
    /\ UNCHANGED <<buffers, discarded, freed>>

\* assert(...) on the result in main: the caller looks at the returned value
\* and at buf, and goes on; buf is dead afterwards.
CheckRead ==
    /\ pc = "read"
    /\ pc' = "ready"
    /\ call' = NoCall
    /\ UNCHANGED <<buffers, memview, discarded, freed>>

\* memview_cleanup(&memview): free(memview->buffers).  The struct keeps the
\* pointer; pc = "cleaned" says that the block it points to is released.
Cleanup ==
    /\ pc = "ready"
    /\ pc' = "cleaned"
    /\ call' = [NoCall EXCEPT !.name = "cleanup"]
    /\ freed' = Append(freed, memview.base)
    /\ UNCHANGED <<buffers, memview, discarded>>

Next == Initialize \/ DiscardFront \/ Read \/ CheckRead \/ Cleanup

Spec == Init /\ [][Next]_vars

\* The same runs from a caller whose struct happens to hold zero.
InitZeroed == Init /\ memview.nbytes = 0

SpecZeroed == InitZeroed /\ [][Next]_vars

\* ------------------------------------------------- what the claims speak of
\* The view is in use: init succeeded, cleanup has not run, nothing crashed.
Live == pc \in {"ready", "read"}

\* The concatenation of the caller's segments: bytes 1 .. OrigTotal.
Concat == [k \in 1 .. OrigTotal |-> k]

RECURSIVE ViewBytes(_, _)
\* The bytes of the view's segments buffers[0 .. n-1], concatenated in order.
ViewBytes(mv, n) ==
    IF n <= 0 THEN <<>>
    ELSE ViewBytes(mv, n - 1) \o
         [j \in 1 .. mv.buffers[n - 1].len |->
             ByteAt([obj |-> mv.buffers[n - 1].data.obj,
                     off |-> mv.buffers[n - 1].data.off + j - 1], 0)]

IsSuffix(s, t) ==
    /\ Len(s) <= Len(t)
    /\ \A k \in 1 .. Len(s) : s[k] = t[Len(t) - Len(s) + k]

Max(a, b) == IF a >= b THEN a ELSE b

\* C1: read/concat equivalence.  After init and discards whose amounts sum
\* to D <= the original total, a read with offset + len <= total_length
\* returns true and leaves in data[0..len) the bytes [D + offset,
\* D + offset + len) of the concatenation of the original segments.
C1_ReadConcat ==
    (/\ call.name = "read"
     /\ discarded <= OrigTotal
     /\ call.offset + call.len <= memview.nbytes)
    => /\ call.ret = "true"
       /\ \A k \in 0 .. call.len - 1 :
             call.data[k] = Concat[discarded + call.offset + k + 1]

\* C2: boundary rejection.  A read with offset + len > total_length returns
\* false, also when it starts inside the view.
C2_BoundaryRejection ==
    (call.name = "read" /\ call.offset + call.len > memview.nbytes)
    => call.ret = "false"

\* C3: over-discard clamps.  discard_front(n) with n > total_length leaves
\* total_length = 0, so that a read of length 1 at offset 0 then fails.
C3_OverDiscardClamps ==
    [][(/\ pc = "ready"
        /\ call'.name = "discard_front"
        /\ call'.n > memview.nbytes)
       => /\ memview'.nbytes = 0
          /\ \A r \in ReadOutcomes(memview', 0, 1) : r.ret = "false"]_vars

\* C4: discard monotonicity.  After discards of amounts d1 .. dk on a view
\* initialised with total T, total_length = max(0, T - (d1 + ... + dk)).
C4_DiscardMonotonicity ==
    Live => memview.nbytes = Max(0, OrigTotal - discarded)

\* C5: length conservation.  Right after a successful init on segments of
\* lengths l1 .. ln, whatever the struct held before, total_length is
\* l1 + ... + ln.
C5_LengthConservation ==
    (call.name = "init" /\ call.ret = "true") => memview.nbytes = OrigTotal

\* C6: total_length equals the sum of the lengths of the segments in the
\* view, buffers[0 .. nbuffers-1], in every state after init.
C6_TotalIsSumOfSegments ==
    Live => memview.nbytes = SumLen(memview.buffers, memview.nbuffers)

\* C7: segment order is preserved.  The view's segments, concatenated in
\* order, form a suffix of the concatenation of the original segments.
C7_ViewIsSuffix ==
    Live => IsSuffix(ViewBytes(memview, memview.nbuffers), Concat)

\* C8: a zero-length read at the end of the view, read(total_length, 0),
\* returns true and copies nothing.
C8_ZeroLengthReadAtEnd ==
    (call.name = "read" /\ call.len = 0 /\ call.offset = memview.nbytes)
    => call.ret = "true"

\* C9: zero is absorbing.  Once total_length is 0, every further
\* discard_front(n) leaves it 0.
C9_ZeroAbsorbing ==
    [][(/\ pc = "ready"
        /\ memview.nbytes = 0
        /\ call'.name = "discard_front")
       => memview'.nbytes = 0]_vars

\* C10: empty discard is a no-op.  discard_front(0) leaves total_length, the
\* segment count and every segment's start and length unchanged, so every
\* read has the same results before and after it.  A read is determined by
\* nbytes, nbuffers and the entries of the allocated array (those past
\* nbuffers included, which the copy loop can load), so the property asks
\* that all of them stay the same.
C10_EmptyDiscardNoOp ==
    [][(/\ pc = "ready"
        /\ call'.name = "discard_front"
        /\ call'.n = 0)
       => /\ memview'.nbytes = memview.nbytes
          /\ memview'.nbuffers = memview.nbuffers
          /\ \A i \in DOMAIN memview.buffers :
                /\ memview'.buffers[i].data = memview.buffers[i].data
                /\ memview'.buffers[i].len = memview.buffers[i].len]_vars

\* C10's case: discard_front(0) has just run on a view of several segments
\* that earlier discards have already advanced and that still holds bytes.
C10_Witness ==
    /\ call.name = "discard_front"
    /\ call.n = 0
    /\ discarded > 0
    /\ memview.nbuffers >= 2
    /\ memview.nbytes > 0

C12_FailedReadWritesNothing ==
    (call.name = "read" /\ call.ret = "false")
    => \A k \in DOMAIN call.data : call.data[k] = Untouched

\* C12's case: a read of at least one byte on a view that still holds bytes
\* has been rejected.
C12_Witness ==
    /\ call.name = "read"
    /\ call.ret = "false"
    /\ call.len > 0
    /\ memview.nbytes > 0

\* C13: memview_read never changes the view.  After every call, successful
\* or failed, nbytes, nbuffers and every entry of the segment array are what
\* they were before it.
C13_ReadLeavesView ==
    [][call'.name = "read" =>
         /\ memview'.nbytes = memview.nbytes
         /\ memview'.nbuffers = memview.nbuffers
         /\ memview'.buffers = memview.buffers]_vars

\* C13's case: a read that started inside a segment and copied from more
\* than one segment has returned true.
C13_Witness ==
    /\ call.name = "read"
    /\ call.ret = "true"
    /\ Len(call.copies) >= 2
    /\ call.copies[1].coffset > 0

\* C14: every copy stays inside its segment.  In a read that returns true,
\* each memcpy from a segment of length blen at intra-segment offset coffset
\* with count n has coffset + n <= blen, and every segment after the first
\* is read from its offset 0.
C14_CopiesStayInSegment ==
    (call.name = "read" /\ call.ret = "true")
    => \A i \in 1 .. Len(call.copies) :
          /\ call.copies[i].coffset + call.copies[i].n <= call.copies[i].blen
          /\ i > 1 => call.copies[i].coffset = 0

\* C16: read only loads descriptors that belong to the view.  In a read
\* that passes the range check, every buffers[pos] loaded by the search loop
\* and by the copy loop has 0 <= pos < nbuffers.
C16_LoadsInsideView ==
    (call.name = "read" /\ call.ret # "false")
    => \A i \in 1 .. Len(call.loads) :
          call.loads[i] >= 0 /\ call.loads[i] < memview.nbuffers

\* C17: every operation terminates within its bound.  discard_front enters
\* its loop body at most nbuffers times, and the copy loop of read runs at
\* most nbuffers + 1 times, for every argument in every reachable state.
C17_LoopBounds ==
    [][/\ call'.name = "discard_front" => call'.iters <= memview.nbuffers
       /\ call'.name = "read" => call'.iters <= memview.nbuffers + 1]_vars

\* C15: total_length is never negative.  In every state reached by init
\* followed by discard_front calls, nbytes >= 0: no discard subtracts more
\* than the current total_length.
C15_TotalNeverNegative ==
    Live => memview.nbytes >= 0

\* C18: ownership.  discard_front and read never change the base pointer of
\* the array allocated by init and never modify the caller's descriptors, so
\* cleanup releases exactly the one block init allocated and never a
\* caller-supplied segment.
C18_Ownership ==
    [][/\ buffers' = buffers
       /\ call'.name \in {"discard_front", "read"}
             => memview'.base = memview.base
       /\ call'.name = "cleanup" => freed' = <<Block>>]_vars

\* C18's case: cleanup has run on a view from which discards dropped
\* leading segments.
C18_Witness ==
    /\ call.name = "cleanup"
    /\ pc = "cleaned"
    /\ discarded > 0
    /\ memview.nbuffers < Count(buffers)
    /\ freed = <<Block>>

====
